---- MODULE Spec2Model ----
(***************************************************************************)
(* A model of MoodleWSClient (src/lib/moodleWSClient.js): the constructor  *)
(* with its validation, coercion and defaulting of the base URL, the token *)
(* and the options bag, and the instance methods submit and                *)
(* registerShortcut together with the shortcut methods registerShortcut    *)
(* binds onto the instance.                                                *)
(*                                                                         *)
(* JavaScript values are records tagged by t.  A string is held as the     *)
(* sequence of its characters, so that patterns, case folding and          *)
(* concatenation are computed character by character.                      *)
(***************************************************************************)
EXTENDS Integers, Sequences, FiniteSets, TLC

VARIABLES
    state,        \* Uninitialized, Constructed or Rejected
    args,         \* the arguments the constructor was called with
    bag,          \* the caller's options object, as the constructor left it
    errors,       \* the parameters the constructor's validation rejected
    _moodleUrl,   \* this._moodleUrl
    _token,       \* this._token
    _options,     \* this._options
    shortcuts,    \* the other own properties of the instance, by name
    call,         \* the last call of an instance method and its outcome
    registry,     \* history: per name, its latest successful registration
    nRegistered   \* the number of successful registrations

vars == <<state, args, bag, errors, _moodleUrl, _token, _options, shortcuts,
          call, registry, nRegistered>>

\* the number of shortcut registrations explored
MaxRegistrations == 2

\* The stored configuration of the instance.
config == <<_moodleUrl, _token, _options>>

-----------------------------------------------------------------------------
(* JavaScript values *)

Undefined == [t |-> "undefined"]
Null == [t |-> "null"]
NaN == [t |-> "NaN"]
Str(cs) == [t |-> "string", s |-> cs]
Num(n) == [t |-> "number", n |-> n]
Bool(b) == [t |-> "boolean", b |-> b]
\* a plain object; p maps its own keys to their values
Obj(props) == [t |-> "object", p |-> props]
\* a moment duration object of ms milliseconds
Duration(ms) == [t |-> "duration", ms |-> ms]
\* a function: the prototype method f with the arguments pre bound in front
Fn(f, pre) == [t |-> "function", f |-> f, pre |-> pre]
\* the instance itself, as a returned value
This == [t |-> "this"]

EmptyProps == [k \in {} |-> Undefined]

\* o[k] for a JavaScript value o: undefined when o has no such own key
Get(o, k) ==
    IF o.t = "object" /\ k \in DOMAIN o.p THEN o.p[k] ELSE Undefined

\* o[k] = v on a plain object
Put(o, k, v) ==
    Obj([x \in (DOMAIN o.p) \cup {k} |-> IF x = k THEN v ELSE o.p[x]])

-----------------------------------------------------------------------------
(* Characters and strings *)

LowerLetters == <<"a","b","c","d","e","f","g","h","i","j","k","l","m",
                  "n","o","p","q","r","s","t","u","v","w","x","y","z">>
UpperLetters == <<"A","B","C","D","E","F","G","H","I","J","K","L","M",
                  "N","O","P","Q","R","S","T","U","V","W","X","Y","Z">>
Digits == <<"0","1","2","3","4","5","6","7","8","9">>

Range(f) == {f[i] : i \in DOMAIN f}
Whitespace == {" "}

ToUpperChar(c) ==
    IF c \in Range(LowerLetters)
    THEN UpperLetters[CHOOSE i \in DOMAIN LowerLetters : LowerLetters[i] = c]
    ELSE c

ToLowerChar(c) ==
    IF c \in Range(UpperLetters)
    THEN LowerLetters[CHOOSE i \in DOMAIN UpperLetters : UpperLetters[i] = c]
    ELSE c

\* String.prototype.toUpperCase / toLowerCase
toUpperCase(cs) == [i \in DOMAIN cs |-> ToUpperChar(cs[i])]
toLowerCase(cs) == [i \in DOMAIN cs |-> ToLowerChar(cs[i])]

\* every character of cs is drawn from set
AllIn(cs, set) == \A i \in DOMAIN cs : cs[i] \in set

EndsWithSlash(cs) == Len(cs) > 0 /\ cs[Len(cs)] = "/"

HasPrefix(cs, pre) == Len(cs) >= Len(pre) /\ SubSeq(cs, 1, Len(pre)) = pre

\* string literals of the source
S_GET == <<"G","E","T">>
S_POST == <<"P","O","S","T">>
S_PUT == <<"P","U","T">>
S_json == <<"j","s","o","n">>
S_xml == <<"x","m","l">>
S_https == <<"h","t","t","p","s">>
MOODLE_API_PATH ==
    <<"w","e","b","s","e","r","v","i","c","e","/","r","e","s","t","/",
      "s","e","r","v","e","r",".","p","h","p">>

-----------------------------------------------------------------------------
(* validate.js predicates, as the source uses them *)

\* validate.isDefined
isDefined(x) == x.t \notin {"undefined", "null"}

\* validate.isString
isString(x) == x.t = "string"

\* validate.isObject: any object, a moment duration included
isObject(x) == x.t \in {"object", "duration", "function"}

\* validate.isEmpty: null, undefined, blank strings and objects without keys
isEmpty(x) ==
    CASE ~isDefined(x) -> TRUE
      [] x.t = "string" -> AllIn(x.s, Whitespace)
      [] x.t = "object" -> DOMAIN x.p = {}
      [] OTHER -> FALSE

-----------------------------------------------------------------------------
(* vpCons: the reusable constraints *)

\* c.toString over the values the model passes for a method, a function
\* name, a data format and a shortcut name: a string stays the string it is,
\* undefined and null stay undefined and null
toString(v) == IF isString(v) THEN Str(v.s) ELSE v

\* vpCons.httpMethod
httpMethod_default == Str(S_GET)
httpMethod_coerce(v) ==
    LET w == toString(v) IN IF isString(w) THEN Str(toUpperCase(w.s)) ELSE w
httpMethod_valid(v) == isString(v) /\ v.s \in {S_GET, S_POST, S_PUT}

\* vpCons.wsDataFormat
\* a faulty variant: the other data format as the default
wsDataFormat_default_xml == Str(S_xml)
wsDataFormat_default == Str(S_json)
wsDataFormat_coerce(v) ==
    LET w == toString(v) IN IF isString(w) THEN Str(toLowerCase(w.s)) ELSE w
wsDataFormat_valid(v) == isString(v) /\ v.s \in {S_json, S_xml}

\* vpCons.wsFunctionName
wsFunctionName_coerce(v) ==
    LET w == toString(v) IN IF isString(w) THEN Str(toLowerCase(w.s)) ELSE w
wsFunctionName_valid(v) ==
    /\ isString(v)
    /\ Len(v.s) >= 1
    /\ AllIn(v.s, Range(LowerLetters) \cup {"_"})

\* vpCons.jsMethodName
jsMethodName_coerce(v) == toString(v)
jsMethodName_valid(v) ==
    /\ isString(v)
    /\ Len(v.s) >= 1
    /\ AllIn(v.s, Range(LowerLetters) \cup Range(UpperLetters) \cup {"_"})

(* vpCons.timeoutMS *)

DefaultTimeoutMS == 5000

\* milliseconds in each unit of a duration descriptor
UnitMS == [milliseconds |-> 1, seconds |-> 1000, minutes |-> 60000]

RECURSIVE SumUnits(_, _)
SumUnits(p, keys) ==
    IF keys = {} THEN 0
    ELSE LET k == CHOOSE x \in keys : TRUE
         IN  (IF k \in DOMAIN UnitMS THEN p[k].n * UnitMS[k] ELSE 0)
             + SumUnits(p, keys \ {k})

DigitValue(c) == (CHOOSE i \in DOMAIN Digits : Digits[i] = c) - 1

IsDigits(cs) == Len(cs) >= 1 /\ AllIn(cs, Range(Digits))

RECURSIVE ParseDigits(_)
ParseDigits(cs) ==
    IF cs = <<>> THEN 0
    ELSE ParseDigits(SubSeq(cs, 1, Len(cs) - 1)) * 10 + DigitValue(cs[Len(cs)])

\* a string without its leading sign, and the sign
Unsigned(cs) == IF Len(cs) > 0 /\ cs[1] \in {"-", "+"} THEN Tail(cs) ELSE cs
SignOf(cs) == IF Len(cs) > 0 /\ cs[1] = "-" THEN -1 ELSE 1

\* moment.duration(string).asMilliseconds(): [-]h:m or [-]h:m:s; any other
\* string gives the zero duration
StringDurationMS(cs) ==
    LET b == Unsigned(cs)
        colons == {i \in DOMAIN b : b[i] = ":"}
        Field(from, to) == SubSeq(b, from, to)
    IN  IF Cardinality(colons) = 1
        THEN LET c1 == CHOOSE i \in colons : TRUE
                 h == Field(1, c1 - 1)
                 m == Field(c1 + 1, Len(b))
             IN  IF IsDigits(h) /\ IsDigits(m)
                 THEN SignOf(cs) * (ParseDigits(h) * 3600000 + ParseDigits(m) * 60000)
                 ELSE 0
        ELSE IF Cardinality(colons) = 2
        THEN LET c1 == CHOOSE i \in colons : \A j \in colons : i <= j
                 c2 == CHOOSE i \in colons : \A j \in colons : i >= j
                 h == Field(1, c1 - 1)
                 m == Field(c1 + 1, c2 - 1)
                 sec == Field(c2 + 1, Len(b))
             IN  IF IsDigits(h) /\ IsDigits(m) /\ IsDigits(sec)
                 THEN SignOf(cs) * (ParseDigits(h) * 3600000
                                    + ParseDigits(m) * 60000
                                    + ParseDigits(sec) * 1000)
                 ELSE 0
        ELSE 0

\* moment.duration(v).asMilliseconds() for a plain object or a string
momentDurationMS(v) ==
    IF v.t = "object" THEN SumUnits(v.p, DOMAIN v.p)
    ELSE IF v.t = "string" THEN StringDurationMS(v.s)
    ELSE 0

\* c.toNumber: numbers pass, numeric strings convert, anything else is NaN
toNumber(v) ==
    CASE v.t = "number" -> v
      [] v.t = "string" /\ IsDigits(Unsigned(v.s)) ->
            Num(SignOf(v.s) * ParseDigits(Unsigned(v.s)))
      [] OTHER -> NaN

timeoutMS_coerce(v) ==
    IF v.t = "duration" THEN Num(v.ms)
    ELSE IF (isObject(v) \/ isString(v)) /\ momentDurationMS(v) > 0
         THEN Num(momentDurationMS(v))
         ELSE toNumber(v)

\* a faulty variant: greaterThanOrEqualTo in place of greaterThan
timeoutMS_valid_orEqual(v) == v.t = "number" /\ v.n >= 0

\* numericality: {onlyInteger: true, greaterThan: 0}
timeoutMS_valid(v) == v.t = "number" /\ v.n > 0

-----------------------------------------------------------------------------
(* The constructor's constraints *)

TokenLength == 32

K_acceptUntrustedTLSCert == "acceptUntrustedTLSCert"
K_dataFormat == "dataFormat"
K_timeout == "timeout"

\* a faulty variant: the slash appended without looking at the last character
moodleBaseUrl_coerce_always(v) ==
    IF isString(v) THEN Str(Append(v.s, "/")) ELSE v

\* moodleBaseUrl: coerced to end in a slash
moodleBaseUrl_coerce(v) ==
    IF isString(v) /\ ~EndsWithSlash(v.s) THEN Str(Append(v.s, "/")) ELSE v

\* the url validator with schemes ['https'] and allowLocal: the scheme, ://,
\* a host, then nothing or a path, query or fragment free of white space
HostChars == Range(LowerLetters) \cup Range(Digits) \cup {"."}
IsUrl(cs, schemes) ==
    \E sch \in schemes :
        LET pre == sch \o <<":", "/", "/">>
        IN  /\ HasPrefix(cs, pre)
            /\ \E j \in (Len(pre) + 1)..Len(cs) :
                  /\ \A i \in (Len(pre) + 1)..j : cs[i] \in HostChars
                  /\ \/ j = Len(cs)
                     \/ /\ cs[j + 1] \in {"/", "?", "#"}
                        /\ \A i \in (j + 1)..Len(cs) : cs[i] \notin Whitespace

\* presence, url and format /.*\// on the coerced base URL
moodleBaseUrl_valid(v) ==
    /\ ~isEmpty(v)
    /\ isString(v)
    /\ IsUrl(v.s, {S_https})
    /\ EndsWithSlash(v.s)

\* presence and format "[a-z0-9]{32}" on the token
token_valid(v) ==
    /\ ~isEmpty(v)
    /\ isString(v)
    /\ Len(v.s) = TokenLength
    /\ AllIn(v.s, Range(LowerLetters) \cup Range(Digits))

\* c.toBoolean
toBoolean(v) ==
    CASE v.t = "boolean" -> v
      [] v.t = "number" -> Bool(v.n # 0)
      [] v.t = "string" -> Bool(Len(v.s) > 0)
      [] OTHER -> Bool(isDefined(v))

\* options: defaultWhenUndefined {}
options_default(v) == IF v.t = "undefined" THEN Obj(EmptyProps) ELSE v

\* options: each key defaulted or coerced on the object itself
options_coerce(v) ==
    IF ~isObject(v) THEN v
    ELSE LET a == Get(v, K_acceptUntrustedTLSCert)
             d == Get(v, K_dataFormat)
             tmo == Get(v, K_timeout)
             v1 == Put(v, K_acceptUntrustedTLSCert,
                       IF isDefined(a) THEN toBoolean(a) ELSE Bool(FALSE))
             v2 == Put(v1, K_dataFormat,
                       IF ~isEmpty(d) THEN wsDataFormat_coerce(d)
                       ELSE wsDataFormat_default)
         IN  Put(v2, K_timeout,
                 IF ~isEmpty(tmo) THEN timeoutMS_coerce(tmo)
                 ELSE Num(DefaultTimeoutMS))

\* options: the dictionary validator with its mapConstraints
options_valid(v) ==
    /\ v.t = "object"
    /\ LET a == Get(v, K_acceptUntrustedTLSCert)
           d == Get(v, K_dataFormat)
           tmo == Get(v, K_timeout)
       IN  /\ ~isEmpty(a) /\ a.t = "boolean"
           /\ ~isEmpty(d) /\ wsDataFormat_valid(d)
           /\ ~isEmpty(tmo) /\ timeoutMS_valid(tmo)

\* the parameters validateParams.assert reports as invalid
ConstructorErrors(url, tok, opts) ==
    {n \in {"moodleBaseUrl"} : ~moodleBaseUrl_valid(moodleBaseUrl_coerce(url))}
    \cup {n \in {"token"} : ~token_valid(tok)}
    \cup {n \in {"options"} : ~options_valid(options_coerce(options_default(opts)))}

\* a faulty variant: the fields stored before the validation is looked at
StoreBeforeAssert(ok, value) == value

\* this.<field> = value is reached only when validateParams.assert did not throw
StoreAfterAssert(ok, value) == IF ok THEN value ELSE Undefined

\* no call on the instance yet
NoCall == [fn |-> "none", via |-> <<>>, given |-> <<>>, a |-> <<>>,
           errors |-> {}, threw |-> FALSE, ret |-> Undefined,
           reqOpts |-> Undefined]

\* new MoodleWSClient(url, tok, opts)
Construct(url, tok, opts) ==
    /\ state = "Uninitialized"
    /\ LET errs == ConstructorErrors(url, tok, opts)
           ok == errs = {}
           o == options_coerce(options_default(opts))
       IN  /\ args' = [moodleBaseUrl |-> url, token |-> tok, options |-> opts]
           /\ bag' = IF isObject(opts) THEN o ELSE opts
           /\ errors' = errs
           /\ state' = IF ok THEN "Constructed" ELSE "Rejected"
           /\ _moodleUrl' = StoreAfterAssert(ok, moodleBaseUrl_coerce(url))
           /\ _token' = StoreAfterAssert(ok, tok)
           /\ _options' = StoreAfterAssert(ok, o)
    /\ UNCHANGED <<shortcuts, call, registry, nRegistered>>

\* the caller, after new MoodleWSClient(url, tok, opts) has returned or
\* thrown, assigns opts[k] = v on the object it passed.  The options coerce
\* works on that object and returns it, and the constructor stores what it
\* returns, so this._options of a constructed client is that same object.
CallerWritesBag(k, v) ==
    /\ state # "Uninitialized"
    /\ args.options.t = "object"
    /\ bag' = Put(bag, k, v)
    /\ _options' = IF state = "Constructed" THEN Put(_options, k, v)
                   ELSE _options
    /\ UNCHANGED <<state, args, errors, _moodleUrl, _token, shortcuts, call,
                   registry, nRegistered>>

\* moodleUrl()
moodleUrl == _moodleUrl

\* apiUrl()
apiUrl ==
    IF isString(_moodleUrl) THEN Str(_moodleUrl.s \o MOODLE_API_PATH)
    ELSE Str(<<_moodleUrl.t>> \o MOODLE_API_PATH)

-----------------------------------------------------------------------------
(* The instance: its properties and its methods *)

N_submit == <<"s","u","b","m","i","t">>
N_registerShortcut ==
    <<"r","e","g","i","s","t","e","r","S","h","o","r","t","c","u","t">>
N_apiUrl == <<"a","p","i","U","r","l">>
N_moodleUrl == <<"m","o","o","d","l","e","U","r","l">>
N__moodleUrl == <<"_","m","o","o","d","l","e","U","r","l">>
N__token == <<"_","t","o","k","e","n">>
N__options == <<"_","o","p","t","i","o","n","s">>

\* the methods of MoodleWSClient.prototype
PrototypeMethods ==
    [n \in {N_submit, N_registerShortcut, N_apiUrl, N_moodleUrl} |->
        IF n = N_submit THEN "submit"
        ELSE IF n = N_registerShortcut THEN "registerShortcut"
        ELSE IF n = N_apiUrl THEN "apiUrl" ELSE "moodleUrl"]

\* this[name]: an own property first, then the prototype
Lookup(name) ==
    IF name = N__moodleUrl THEN _moodleUrl
    ELSE IF name = N__token THEN _token
    ELSE IF name = N__options THEN _options
    ELSE IF name \in DOMAIN shortcuts THEN shortcuts[name]
    ELSE IF name \in DOMAIN PrototypeMethods THEN Fn(PrototypeMethods[name], <<>>)
    ELSE Undefined

\* fn.bind(self, a1, a2): the arguments are put behind those already bound
Bind(fn, bound) == Fn(fn.f, fn.pre \o bound)

\* arguments[i - 1]
Arg(a, i) == IF i <= Len(a) THEN a[i] ELSE Undefined

\* vpopt_defaultWhenEmpty
DefaultWhenEmpty(v, default) == IF isEmpty(v) THEN default ELSE v

\* !v
Not(v) == Bool(~toBoolean(v).b)

K_wstoken == "wstoken"
K_wsfunction == "wsfunction"
K_moodlewsrestformat == "moodlewsrestformat"

\* the parameters validateParams.assert reports as invalid in submit
SubmitErrors(a) ==
    {n \in {"method"} :
        ~httpMethod_valid(httpMethod_coerce(DefaultWhenEmpty(Arg(a, 1), httpMethod_default)))}
    \cup {n \in {"wsFunctionName"} :
        LET f == wsFunctionName_coerce(Arg(a, 2))
        IN  isEmpty(f) \/ ~wsFunctionName_valid(f)}
    \cup {n \in {"wsParameters"} :
        \/ isDefined(Arg(a, 3)) /\ Arg(a, 3).t # "object"
        \/ isDefined(Arg(a, 4)) /\ Arg(a, 4).t # "object"}

\* qs once the loop over wsParameters has run: every key of wsParameters is
\* assigned over the three keys the client set
MergeQuery(fixed, wsParameters) ==
    LET extra == IF wsParameters.t = "object" THEN wsParameters.p ELSE EmptyProps
    IN  Obj([k \in (DOMAIN fixed) \cup (DOMAIN extra) |->
                IF k \in DOMAIN extra THEN extra[k] ELSE fixed[k]])

\* the reqOpts object submit builds
BuildReqOpts(method, wsFunctionName, wsParameters) ==
    Obj([uri |-> Lookup(N_apiUrl),
         method |-> method,
         qs |-> MergeQuery([wstoken |-> _token,
                            wsfunction |-> wsFunctionName,
                            moodlewsrestformat |-> Get(_options, K_dataFormat)],
                           wsParameters),
         strictSSL |-> Not(Get(_options, K_acceptUntrustedTLSCert)),
         timeout |-> Get(_options, K_timeout)])

\* what submit returns: the function ends without a return statement
SubmitReturn(reqOpts) == Undefined

\* MoodleWSClient.prototype.submit called with the arguments a; via and given
\* record the property the caller invoked and the arguments the caller gave.
\* wsParameters is the third argument, as the method documents it; the
\* constraint list validates a fourth argument under the same name.
DoSubmit(a, via, given) ==
    LET errs == SubmitErrors(a)
        method == httpMethod_coerce(DefaultWhenEmpty(Arg(a, 1), httpMethod_default))
        wsFunctionName == wsFunctionName_coerce(Arg(a, 2))
        wsParameters == Arg(a, 3)
        reqOpts == BuildReqOpts(method, wsFunctionName, wsParameters)
    IN  /\ IF errs # {}
           THEN call' = [fn |-> "submit", via |-> via, given |-> given, a |-> a,
                         errors |-> errs, threw |-> TRUE, ret |-> Undefined,
                         reqOpts |-> Undefined]
           ELSE call' = [fn |-> "submit", via |-> via, given |-> given,
                         a |-> a, errors |-> {}, threw |-> FALSE,
                         ret |-> SubmitReturn(reqOpts), reqOpts |-> reqOpts]
        /\ UNCHANGED <<state, args, bag, errors, _moodleUrl, _token, _options,
                       shortcuts, registry, nRegistered>>

\* the parameters validateParams.assert reports as invalid in registerShortcut
RegisterErrors(a) ==
    {n \in {"shortcut"} :
        LET s == jsMethodName_coerce(Arg(a, 1))
        IN  isEmpty(s) \/ ~jsMethodName_valid(s)}
    \cup {n \in {"method"} :
        ~httpMethod_valid(httpMethod_coerce(DefaultWhenEmpty(Arg(a, 2), httpMethod_default)))}
    \cup {n \in {"wsFunctionName"} :
        LET f == wsFunctionName_coerce(Arg(a, 3))
        IN  isEmpty(f) \/ ~wsFunctionName_valid(f)}

\* the shortcut function: self.submit, read when registerShortcut runs, with
\* the method and the function name bound
ShortcutFunction(method, wsFunctionName) ==
    Bind(Lookup(N_submit), <<method, wsFunctionName>>)

\* MoodleWSClient.prototype.registerShortcut called with the arguments a
DoRegisterShortcut(a, via, given) ==
    LET errs == RegisterErrors(a)
        shortcut == jsMethodName_coerce(Arg(a, 1))
        method == httpMethod_coerce(DefaultWhenEmpty(Arg(a, 2), httpMethod_default))
        wsFunctionName == wsFunctionName_coerce(Arg(a, 3))
        func == ShortcutFunction(method, wsFunctionName)
    IN  IF errs # {}
        THEN /\ call' = [fn |-> "registerShortcut", via |-> via, given |-> given,
                         a |-> a, errors |-> errs, threw |-> TRUE,
                         ret |-> Undefined, reqOpts |-> Undefined]
             /\ UNCHANGED <<state, args, bag, errors, _moodleUrl, _token,
                            _options, shortcuts, registry, nRegistered>>
        ELSE /\ call' = [fn |-> "registerShortcut", via |-> via, given |-> given,
                         a |-> a, errors |-> {}, threw |-> FALSE, ret |-> This,
                         reqOpts |-> Undefined]
             \* this[args.shortcut] = func()
             /\ _moodleUrl' = IF shortcut.s = N__moodleUrl THEN func ELSE _moodleUrl
             /\ _token' = IF shortcut.s = N__token THEN func ELSE _token
             /\ _options' = IF shortcut.s = N__options THEN func ELSE _options
             /\ shortcuts' =
                   IF shortcut.s \in {N__moodleUrl, N__token, N__options}
                   THEN shortcuts
                   ELSE [n \in (DOMAIN shortcuts) \cup {shortcut.s} |->
                            IF n = shortcut.s THEN func ELSE shortcuts[n]]
             /\ registry' =
                   [n \in (DOMAIN registry) \cup {shortcut.s} |->
                       IF n = shortcut.s
                       THEN [method |-> Arg(a, 2),
                             wsFunctionName |-> Arg(a, 3), func |-> func]
                       ELSE registry[n]]
             /\ nRegistered' = nRegistered + 1
             /\ UNCHANGED <<state, args, bag, errors>>

\* calling the function value fn with the arguments given
Invoke(fn, via, given) ==
    /\ fn.t = "function"
    /\ \/ /\ fn.f = "submit"
          /\ DoSubmit(fn.pre \o given, via, given)
       \/ /\ fn.f = "registerShortcut"
          /\ DoRegisterShortcut(fn.pre \o given, via, given)

\* client.submit(method, wsFunctionName, wsParameters)
Submit(method, wsFunctionName, wsParameters) ==
    /\ state = "Constructed"
    /\ Invoke(Lookup(N_submit), N_submit,
              <<method, wsFunctionName, wsParameters>>)

\* client.registerShortcut(shortcut, method, wsFunctionName)
RegisterShortcut(shortcut, method, wsFunctionName) ==
    /\ state = "Constructed"
    /\ nRegistered < MaxRegistrations
    /\ Invoke(Lookup(N_registerShortcut), N_registerShortcut,
              <<shortcut, method, wsFunctionName>>)

\* client[name](wsParameters), for a name a shortcut was bound to
CallShortcut(name, wsParameters) ==
    /\ state = "Constructed"
    /\ name \notin {N_submit, N_registerShortcut}
    /\ name \in (DOMAIN shortcuts) \cup {N__moodleUrl, N__token, N__options}
    /\ Invoke(Lookup(name), name, <<wsParameters>>)

-----------------------------------------------------------------------------
(* Constructor arguments *)

Https(rest) == Str(S_https \o <<":", "/", "/">> \o rest)
Filled(c, n) == [i \in 1..n |-> c]

UrlInputs ==
    { Undefined, Str(<<>>), Str(<<"l","h">>),
      Https(<<>>), Https(<<"l","h">>), Https(<<"l","h","/">>),
      Https(<<"l","h","/","m">>), Https(<<"l","h","/","m","/">>),
      Https(<<"l"," ","h","/">>),
      Str(<<"h","t","t","p",":","/","/","l","h","/">>) }

TokenInputs ==
    {Undefined}
    \cup {Str(Filled(c, TokenLength)) : c \in {"0", "a", "f", "g", "z", "A", "-"}}
    \cup {Str([Filled("0", TokenLength) EXCEPT ![k] = c]) :
             k \in {1, TokenLength}, c \in {"9", "g"}}
    \cup {Str(Filled("0", n)) : n \in {0, TokenLength - 1, TokenLength + 1}}

AcceptInputs == {Undefined, Bool(TRUE), Bool(FALSE)}

FormatInputs ==
    { Undefined, Str(<<>>), Str(S_json), Str(S_xml), Str(<<"X","M","L">>),
      Str(<<"y","a","m","l">>) }

TimeoutInputs ==
    { Undefined, Null,
      Num(-1), Num(0), Num(1), Num(10000),
      Duration(-5), Duration(0), Duration(250),
      Obj(EmptyProps), Obj([seconds |-> Num(2)]), Obj([seconds |-> Num(0)]),
      Obj([minutes |-> Num(1), seconds |-> Num(30)]),
      Obj([minutes |-> Num(1), seconds |-> Num(-90)]),
      Str(<<>>), Str(<<" ">>), Str(<<"0",":","0",":","2">>),
      Str(<<"-","0",":","0",":","2">>), Str(<<"0",":","1">>),
      Str(<<"3","0","0">>), Str(<<"0">>), Str(<<"-","7">>),
      Str(<<"a","b","c">>) }

\* an options bag holding the keys that are given
MkBag(a, d, tmo) ==
    LET given == [k \in {K_acceptUntrustedTLSCert, K_dataFormat, K_timeout} |->
                     IF k = K_acceptUntrustedTLSCert THEN a
                     ELSE IF k = K_dataFormat THEN d ELSE tmo]
    IN  Obj([k \in {x \in DOMAIN given : given[x] # Undefined} |-> given[k]])

OptionInputs ==
    {Undefined, Num(42)}
    \cup {MkBag(a, d, tmo) : a \in AcceptInputs, d \in FormatInputs,
                             tmo \in TimeoutInputs}

-----------------------------------------------------------------------------
(* Specifications *)

Init ==
    /\ state = "Uninitialized"
    /\ args = Undefined
    /\ bag = Undefined
    /\ _moodleUrl = Undefined
    /\ _token = Undefined
    /\ _options = Undefined
    /\ shortcuts = EmptyProps
    /\ errors = {}
    /\ call = NoCall
    /\ registry = EmptyProps
    /\ nRegistered = 0

\* construction alone, over every combination of the constructor arguments
NextCons ==
    /\ state = "Uninitialized"
    /\ \E url \in UrlInputs, tok \in TokenInputs, opts \in OptionInputs :
          Construct(url, tok, opts)

SpecCons == Init /\ [][NextCons]_vars

(* Arguments of the life of one client *)

ClientUrlInputs == {Https(<<"l","h">>), Https(<<"l"," ","h">>)}
ClientTokenInputs == {Str(Filled("0", TokenLength)), Str(Filled("A", TokenLength))}
ClientOptionInputs ==
    {Undefined, MkBag(Bool(TRUE), Str(S_xml), Num(10000))}

MethodInputs == {Str(<<"g","e","t">>), Str(S_POST)}

FunctionNameInputs == {Str(<<"C","O","R","E","_","F","n">>), Str(<<"f","n","1">>)}

ParameterInputs ==
    {Undefined, Obj(EmptyProps), Obj([courseid |-> Num(5)]),
     Obj([courseid |-> Num(5), moodlewsrestformat |-> Str(S_xml)]),
     Obj([wstoken |-> Str(<<"e","v","i","l">>)]),
     Obj([wsfunction |-> Str(<<"o","t","h","e","r">>)]),
     Str(<<"q">>)}

ShortcutNameInputs ==
    {Str(<<"g","e","t","U","s","e","r","s">>), Str(<<"g","e","t","A">>),
     Str(N_submit), Str(N_registerShortcut), Str(N__token),
     Str(<<"g","e","t","-","1">>)}

\* the life of one client: construction, then any calls of its methods
Next ==
    \/ /\ state = "Uninitialized"
       /\ \E url \in ClientUrlInputs, tok \in ClientTokenInputs,
             opts \in ClientOptionInputs : Construct(url, tok, opts)
    \/ \E method \in MethodInputs, wsFunctionName \in FunctionNameInputs,
          wsParameters \in ParameterInputs :
          Submit(method, wsFunctionName, wsParameters)
    \/ \E shortcut \in ShortcutNameInputs, method \in MethodInputs,
          wsFunctionName \in FunctionNameInputs :
          RegisterShortcut(shortcut, method, wsFunctionName)
    \/ \E name \in {n.s : n \in ShortcutNameInputs},
          wsParameters \in ParameterInputs :
          CallShortcut(name, wsParameters)

Spec == Init /\ [][Next]_vars

(* Arguments of a construction whose caller keeps its options bag *)

BagOptionInputs ==
    {Undefined, Obj(EmptyProps),
     MkBag(Undefined, Str(<<"X","M","L">>), Undefined),
     MkBag(Undefined, Undefined, Obj([seconds |-> Num(2)])),
     MkBag(Bool(TRUE), Str(S_xml), Num(10000)),
     MkBag(Bool(FALSE), Str(S_json), Num(5000)),
     MkBag(Undefined, Undefined, Num(0))}

BagKeyInputs == {K_dataFormat, K_timeout, "extra"}

BagValueInputs == {Str(S_xml), Num(1), Obj([seconds |-> Num(2)])}

\* a construction, then any writes of the caller to the bag it passed
NextBag ==
    \/ /\ state = "Uninitialized"
       /\ \E url \in ClientUrlInputs, tok \in ClientTokenInputs,
             opts \in BagOptionInputs : Construct(url, tok, opts)
    \/ \E k \in BagKeyInputs, v \in BagValueInputs : CallerWritesBag(k, v)

SpecBag == Init /\ [][NextBag]_vars

-----------------------------------------------------------------------------
(* Properties of construction *)

Constructed == state = "Constructed"
Rejected == state = "Rejected"

\* the value the caller gave for an option: undefined when the bag is absent
\* or the key is omitted
Given(k) == IF args = Undefined THEN Undefined ELSE Get(args.options, k)

\* the stored value of an option
StoredOption(k) == Get(_options, k)

\* C5: construction is all-or-nothing.  A rejected construction reports a
\* validation error and has stored none of base URL, token and options; a
\* successful one reports none and has stored all three; a missing base URL
\* or a missing token always rejects.
C5_AllOrNothing ==
    /\ Rejected =>
          /\ errors # {}
          /\ _moodleUrl = Undefined /\ _token = Undefined /\ _options = Undefined
    /\ Constructed =>
          /\ errors = {}
          /\ isDefined(_moodleUrl) /\ isDefined(_token) /\ isDefined(_options)
    /\ state # "Uninitialized" =>
          /\ args.moodleBaseUrl = Undefined => Rejected
          /\ args.token = Undefined => Rejected
          /\ errors # {} => Rejected

\* a construction rejected for its token alone, after the base URL and the
\* options passed
C5_Witness ==
    Rejected /\ errors = {"token"} /\ args.options # Undefined

HexChars == Range(Digits) \cup {"a", "b", "c", "d", "e", "f"}
IsLowerHex32(v) == v.t = "string" /\ Len(v.s) = 32 /\ AllIn(v.s, HexChars)

\* C6: only tokens of exactly 32 lower-case hexadecimal characters are
\* accepted; every other token is rejected with an error on the token.
C6_OnlyHexTokens ==
    state # "Uninitialized" =>
        /\ Constructed => IsLowerHex32(args.token)
        /\ ~IsLowerHex32(args.token) => Rejected /\ "token" \in errors

\* C7: the stored base URL is the input unchanged when the input ends in a
\* slash, and the input with exactly one slash appended when it does not; it
\* always ends in a slash.
C7_UrlNormalised ==
    Constructed =>
        LET input == args.moodleBaseUrl.s
        IN  /\ input[Len(input)] = "/" => _moodleUrl = Str(input)
            /\ input[Len(input)] # "/" => _moodleUrl = Str(input \o <<"/">>)
            /\ _moodleUrl.s[Len(_moodleUrl.s)] = "/"

\* a base URL without a trailing slash was accepted
C7_Witness ==
    /\ Constructed
    /\ args.moodleBaseUrl.s[Len(args.moodleBaseUrl.s)] # "/"
    /\ Len(_moodleUrl.s) = Len(args.moodleBaseUrl.s) + 1

\* C8: an omitted option (the bag absent, or the key omitted) is stored as
\* its default, false, 'json' and 5000; a supplied valid option is stored
\* with its supplied value, the data format folded to lower case.
C8_OptionDefaults ==
    Constructed =>
        /\ Given(K_acceptUntrustedTLSCert) = Undefined
              => StoredOption(K_acceptUntrustedTLSCert) = Bool(FALSE)
        /\ Given(K_dataFormat) = Undefined
              => StoredOption(K_dataFormat) = Str(<<"j","s","o","n">>)
        /\ Given(K_timeout) = Undefined
              => StoredOption(K_timeout) = Num(5000)
        /\ Given(K_acceptUntrustedTLSCert).t = "boolean"
              => StoredOption(K_acceptUntrustedTLSCert)
                     = Given(K_acceptUntrustedTLSCert)
        /\ Given(K_dataFormat) \in {Str(<<"j","s","o","n">>), Str(<<"x","m","l">>)}
              => StoredOption(K_dataFormat) = Given(K_dataFormat)
        /\ Given(K_dataFormat) = Str(<<"X","M","L">>)
              => StoredOption(K_dataFormat) = Str(<<"x","m","l">>)
        /\ Given(K_timeout).t = "number"
              => StoredOption(K_timeout) = Given(K_timeout)

\* a bag that gives the data format and omits the other two keys
C8_Witness ==
    /\ Constructed
    /\ args.options.t = "object"
    /\ Given(K_dataFormat) = Str(<<"X","M","L">>)
    /\ Given(K_timeout) = Undefined
    /\ Given(K_acceptUntrustedTLSCert) = Undefined

\* whether a supplied timeout resolves to a millisecond count, and the count
Resolves(v) ==
    \/ v.t \in {"number", "duration", "object"}
    \/ v.t = "string" /\ (StringDurationMS(v.s) # 0 \/ IsDigits(Unsigned(v.s))
                          \/ AllIn(v.s, Whitespace))
ResolvedMS(v) ==
    CASE v.t = "number" -> v.n
      [] v.t = "duration" -> v.ms
      [] v.t = "object" -> SumUnits(v.p, DOMAIN v.p)
      [] v.t = "string" ->
            IF StringDurationMS(v.s) # 0 THEN StringDurationMS(v.s)
            ELSE IF IsDigits(Unsigned(v.s))
                 THEN SignOf(v.s) * ParseDigits(Unsigned(v.s))
                 ELSE 0

\* the rest of the constructor's arguments is valid, so that the timeout
\* alone decides the construction
OnlyTimeoutDecides ==
    /\ state # "Uninitialized"
    /\ errors \subseteq {"options"}
    /\ args.options.t = "object"
    /\ LET d == Given(K_dataFormat)
       IN  isEmpty(d) \/ wsDataFormat_valid(wsDataFormat_coerce(d))

\* C9 as claimed: every supplied timeout resolving to a positive count is
\* stored as that count, and every supplied timeout resolving to zero or
\* less rejects the construction.
C9_TimeoutResolution_AsClaimed ==
    (OnlyTimeoutDecides /\ Resolves(Given(K_timeout))) =>
        LET ms == ResolvedMS(Given(K_timeout))
        IN  /\ ms > 0 => Constructed /\ StoredOption(K_timeout) = Num(ms)
            /\ ms <= 0 => Rejected /\ "options" \in errors

\* C9 amended: the same for every supplied timeout that is not empty; an
\* empty one (null, a blank string, an object without keys) is taken as
\* omitted, and the construction succeeds with the default of 5000.
C9_TimeoutResolution ==
    /\ (OnlyTimeoutDecides /\ Resolves(Given(K_timeout))
          /\ ~isEmpty(Given(K_timeout))) =>
          LET ms == ResolvedMS(Given(K_timeout))
          IN  /\ ms > 0 => Constructed /\ StoredOption(K_timeout) = Num(ms)
              /\ ms <= 0 => Rejected /\ "options" \in errors
    /\ (OnlyTimeoutDecides /\ isEmpty(Given(K_timeout))) =>
          Constructed /\ StoredOption(K_timeout) = Num(5000)

\* a duration descriptor object of 90 seconds was stored as 90000
C9_Witness ==
    /\ Constructed
    /\ Given(K_timeout).t = "object"
    /\ StoredOption(K_timeout) = Num(90000)

-----------------------------------------------------------------------------
(* Properties of the instance methods *)

\* the last call ran submit to its end and built a request
Submitted == call.fn = "submit" /\ ~call.threw

\* the query of the request the last call built
Query == call.reqOpts.p.qs.p

\* the last call invoked the registered shortcut call.via with one argument,
\* a dictionary of query parameters
ShortcutInvoked ==
    /\ call.fn # "none"
    /\ call.via \in DOMAIN registry
    /\ Len(call.given) = 1
    /\ call.given[1].t = "object"

\* C1: the query of every request submit builds has wstoken equal to the
\* stored token and wsfunction equal to the validated function name of the
\* call, whatever keys the caller's parameters hold.
C1_TokenAndFunctionProtected ==
    Submitted =>
        /\ Query[K_wstoken] = _token
        /\ Query[K_wsfunction] = wsFunctionName_coerce(Arg(call.a, 2))

\* C2: a constructed client keeps the base URL, the token and the options
\* it stored at construction, whatever methods are called on it.
C2_ConfigurationImmutable ==
    Constructed =>
        /\ _moodleUrl = moodleBaseUrl_coerce(args.moodleBaseUrl)
        /\ _token = args.token
        /\ _options = options_coerce(options_default(args.options))

\* C3: invoking a registered shortcut with the dictionary q builds a request
\* whose method is the registered method in upper case and whose query holds
\* wsfunction equal to the registered function name, the token and the data
\* format of the instance, and every pair of q.
C3_ShortcutRequest ==
    ShortcutInvoked =>
        LET reg == registry[call.via]
            q == call.given[1].p
        IN  /\ ~call.threw
            /\ call.reqOpts.p.method = Str(toUpperCase(reg.method.s))
            /\ Query[K_wsfunction] = Str(toLowerCase(reg.wsFunctionName.s))
            /\ Query[K_wstoken] = _token
            /\ Query[K_moodlewsrestformat] = StoredOption(K_dataFormat)
            /\ \A k \in DOMAIN q : k \in DOMAIN Query /\ Query[k] = q[k]

\* C4: a submit whose arguments pass validation returns the request
\* descriptor: the coerced method, the uri apiUrl() gives, tlsVerify the
\* negation of the stored acceptUntrustedTLSCert, and the stored timeout.
C4_SubmitReturnsDescriptor ==
    Submitted =>
        /\ call.ret # Undefined
        /\ call.ret = call.reqOpts
        /\ call.reqOpts.p.uri = apiUrl
        /\ call.reqOpts.p.method = httpMethod_coerce(Arg(call.a, 1))
        /\ call.reqOpts.p.strictSSL
              = Bool(~StoredOption(K_acceptUntrustedTLSCert).b)
        /\ call.reqOpts.p.timeout = StoredOption(K_timeout)

\* C10: registerShortcut with valid arguments succeeds and returns the
\* instance, also for a name already bound; a shortcut runs submit with the
\* method and the function name of its latest registration, and every
\* registered name stays bound to the function its latest registration made.
C10_ReplaceOnReregister ==
    /\ (call.via = N_registerShortcut /\ RegisterErrors(call.given) = {}) =>
          ~call.threw /\ call.ret = This
    /\ ShortcutInvoked =>
          LET reg == registry[call.via]
          IN  /\ call.fn = "submit"
              /\ call.a = <<httpMethod_coerce(reg.method),
                            wsFunctionName_coerce(reg.wsFunctionName)>>
                          \o call.given
    /\ \A n \in DOMAIN registry : Lookup(n) = registry[n].func

-----------------------------------------------------------------------------
(* Properties of the caller's options bag *)

\* C11: validation has no side effect on its inputs.  A construction,
\* accepted or rejected, leaves the options bag of the caller exactly as it
\* was passed, and a later write of the caller to its bag leaves the stored
\* options of the client as they were.
C11_BagUntouched ==
    [][ /\ state = "Uninitialized" => bag' = args'.options
        /\ (state # "Uninitialized" /\ bag' # bag) => _options' = _options
      ]_vars

====
